---- MODULE Spec2Model ----
(***************************************************************************)
(* macmon (src/src/main.rs): a terminal dashboard with two threads.        *)
(*   - the interaction loop run_app (main thread): refresh, draw, poll,    *)
(*     key handling, cleanup actions;                                      *)
(*   - one scanner thread scan_issues, spawned in App::new.                *)
(* Both share IssuesData behind one Mutex.  A thread's program counter     *)
(* names the statement it executes next; a blocking call is one step.      *)
(* The Mutex is never poisoned: no thread can panic while it holds the     *)
(* guard, so lock() always returns Ok and only ever blocks.                *)
(***************************************************************************)
EXTENDS Integers, Sequences, FiniteSets, TLC

\* ---------------------------------------------------------------- bounds
MaxPid == 3          \* process ids the OS process table is sampled from
MaxDirs == 2         \* node_modules directories the walk can meet
MaxLines == 1        \* lines the image-listing command can print
MaxFound == 11       \* directories above the floor a walk can meet
MaxTable == 6        \* processes alive when update_top_processes is studied alone
MaxDisks == 2        \* disks sysinfo lists
MaxUnits == 3        \* largest amount of space or memory sampled (in units)

\* ------------------------------------------------------ program constants
TopN == 5                    \* take(5)
CacheCap == 10               \* truncate(10)
ImageCap == 10               \* take(10)
SizeFloor == 100000000       \* size > 100_000_000
LastOption == 3              \* CleanupMenu options 0..3
ScoreDivisor == 1000000      \* memory as f32 / 1_000_000.0

VARIABLES
    mode,            \* App.mode: [kind, selected]
    issues,          \* the IssuesData behind Arc<Mutex<..>>
    lock,            \* holder of the Mutex: "free", "main" or "scanner"
    mainPc,          \* position of the interaction loop
    key,             \* the KeyCode read by event::read in this iteration
    i,               \* execute_cleanup: work done so far (loop position)
    ops,             \* destructive calls issued while handling `key`
    res,             \* main's `res`: what run_app returned ("none" until then)
    frame,           \* what terminal.draw rendered in this loop iteration
    confirmed,       \* history: was the scan still running when the cleanup
                     \* confirm being executed was read ("none" outside one)
    scanPc,          \* position of the scanner thread
    node_modules,    \* scan_issues' local node_modules
    docker_images,   \* scan_issues' local docker_images
    output,          \* how the image-listing command ended (scan_docker_images)
    call             \* a single function under evaluation: [fn, arg, done, ret]

vars == <<mode, issues, lock, mainPc, key, i, ops, res, frame, confirmed,
          scanPc, node_modules, docker_images, output, call>>

mainVars == <<mode, mainPc, key, i, ops, res, frame, confirmed>>
scanVars == <<scanPc, node_modules, docker_images, output>>

\* ------------------------------------------------------------- helpers
Min(a, b) == IF a < b THEN a ELSE b

\* Iterator::take(n) / Vec::truncate(n)
Take(s, n) == SubSeq(s, 1, Min(n, Len(s)))

\* slice::sort_by with the comparator b.key.cmp(a.key): a stable sort,
\* descending by key; keyOf[n] is the key of s[n].
StableSortDesc(s, keyOf) ==
    LET ins(acc, n) ==
            LET p == Cardinality({j \in 1..Len(acc) : keyOf[acc[j]] >= keyOf[n]})
            IN  SubSeq(acc, 1, p) \o <<n>> \o SubSeq(acc, p + 1, Len(acc))
        order[n \in 0..Len(s)] == IF n = 0 THEN <<>> ELSE ins(order[n - 1], n)
        sorted == order[Len(s)]
    IN  [m \in 1..Len(s) |-> s[sorted[m]]]

\* usize::saturating_sub(1)
SaturatingSub1(n) == IF n > 0 THEN n - 1 ELSE 0

\* ---------------------------------------------------------------- AppMode
Normal == [kind |-> "Normal", selected |-> 0]
CleanupMenu(selected) == [kind |-> "CleanupMenu", selected |-> selected]
KillProcessMenu(selected) == [kind |-> "KillProcessMenu", selected |-> selected]

\* the KeyCode patterns the match arms tell apart: "Up" is Up | Char('k'),
\* "Down" is Down | Char('j'), "x" is any other key
KeyCodes == {"q", "Esc", "c", "Up", "Down", "Enter", "x"}

\* ------------------------------------------------- the sampled process table
Pids == 1..MaxPid

\* the cpu usage (percent) and the memory (bytes) sampled for a process
Load(pid) == [cpu |-> 10 * (pid % 2), memory |-> 5000000 * (pid \div 2)]

\* system.processes().values(): the processes alive at the tick, in the
\* table's iteration order (ascending pid here).  The table of a running
\* system is never empty: the lowest pid stands for a process that is
\* always there.
ProcessTables ==
    { t \in UNION { [1..n -> Pids] : n \in 1..MaxPid } :
        /\ t[1] = 1
        /\ \A a, b \in 1..Len(t) : a < b => t[a] < t[b] }

\* lines 113-118: the TopProcess of a sampled process (its name is only
\* displayed)
TopProcess(pid) == [pid |-> pid, cpu |-> Load(pid).cpu, memory |-> Load(pid).memory]

\* a.cpu + (a.memory as f32 / 1_000_000.0)
Score(p) == p.cpu + (p.memory \div ScoreDivisor)

\* update_top_processes: collect, sort by score descending, keep five
RankProcesses(table) ==
    LET processes == [n \in 1..Len(table) |-> TopProcess(table[n])]
    IN  Take(StableSortDesc(processes,
                            [n \in 1..Len(processes) |-> Score(processes[n])]),
             TopN)

\* ---------------------------------------------------------- the filesystem
Paths == 1..MaxDirs
DirSizes == {50000000, 500000000}

\* the node_modules directories met by the walk, in walk order, each with
\* the size calculate_dir_size returns for it
Walks ==
    { w \in UNION { [1..n -> [path : Paths, size : DirSizes]] : n \in 0..MaxDirs } :
        \A a, b \in 1..Len(w) : a < b => w[a].path < w[b].path }

\* scan_node_modules: keep the matches above the floor, in walk order
scan_node_modules(w) == SelectSeq(w, LAMBDA e : e.size > SizeFloor)

\* mutant of SortAndTruncate: truncate(10) comes before the sort
TruncateThenSort(found) ==
    LET cut == Take(found, CacheCap)
    IN  StableSortDesc(cut, [n \in 1..Len(cut) |-> cut[n].size])

\* mutant of SortAndTruncate: the comparator is a.size.cmp(&b.size)
SortAscendingAndTruncate(found) ==
    LET down == StableSortDesc(found, [n \in 1..Len(found) |-> found[n].size])
    IN  Take([n \in 1..Len(down) |-> down[Len(down) + 1 - n]], CacheCap)

\* scan_issues lines 176-178: sort descending by size, truncate(10)
SortAndTruncate(found) ==
    Take(StableSortDesc(found, [n \in 1..Len(found) |-> found[n].size]), CacheCap)

\* ------------------------------------------------- the image-listing tool
\* a stdout line is its tab-separated fields; <<"">> is the empty line
LineKinds == { <<"">>, <<"repo:tag", "1GB">>, <<"repo:tag", "1GB", "2 days ago">> }
Stdouts == UNION { [1..n -> LineKinds] : n \in 0..MaxLines }

\* what Command::output() gives: the tool is absent (spawn error), it
\* exits non-zero, or it succeeds with some stdout
ToolRuns ==
    { [spawned |-> FALSE, success |-> FALSE, stdout |-> <<>>] }
    \cup { [spawned |-> TRUE, success |-> FALSE, stdout |-> <<>>] }
    \cup { [spawned |-> TRUE, success |-> TRUE, stdout |-> s] : s \in Stdouts }

ParseLine(parts) == [name |-> parts[1], size |-> parts[2], created |-> parts[3]]

\* Err(_) from output(), a non-zero exit status, or success
OutputStatus(run) ==
    IF ~run.spawned THEN "absent" ELSE IF ~run.success THEN "failed" ELSE "success"

scan_docker_images(run) ==
    IF run.spawned /\ run.success
    THEN LET nonEmpty == SelectSeq(run.stdout, LAMBDA l : l # <<"">>)
             wellFormed == SelectSeq(nonEmpty, LAMBDA l : Len(l) >= 3)
         IN  Take([n \in 1..Len(wellFormed) |-> ParseLine(wellFormed[n])], ImageCap)
    ELSE <<>>

\* ------------------------------------------------------------------ Init
\* IssuesData::default
IssuesDefault ==
    [node_modules |-> <<>>, docker_images |-> <<>>,
     top_processes |-> <<>>, scanning |-> TRUE]

\* nothing has been drawn in this iteration of the loop
NoFrame == [kind |-> "none", selected |-> 0, rows |-> <<>>]

\* ui(f, app): the screen is chosen by the mode; render_kill_process_menu
\* lists every entry of top_processes with its pid and highlights the row
\* whose index equals `selected` (line 520).  The other screens show no
\* process rows that a selection refers to.
ui(m, data) ==
    [kind |-> m.kind,
     selected |-> m.selected,
     rows |-> IF m.kind = "KillProcessMenu"
              THEN [n \in 1..Len(data.top_processes) |->
                       [pid |-> data.top_processes[n].pid,
                        highlighted |-> (n - 1 = m.selected)]]
              ELSE <<>>]

\* no function is being evaluated on its own
NoCall == [fn |-> "none", arg |-> <<>>, done |-> TRUE, ret |-> <<>>]

\* the state after App::new, but for `call`: the scanner thread is spawned,
\* the mode is Normal, run_app is about to start its first iteration
InitApp ==
    /\ mode = Normal
    /\ issues = IssuesDefault
    /\ lock = "free"
    /\ mainPc = "update"
    /\ key = "none"
    /\ i = 0
    /\ ops = <<>>
    /\ res = "none"
    /\ frame = NoFrame
    /\ confirmed = "none"
    /\ scanPc = "walk"
    /\ node_modules = <<>>
    /\ docker_images = <<>>
    /\ output = "none"

\* the program as main starts it
Init == InitApp /\ call = NoCall

\* the process lives until run_app returns; its exit ends the scanner too
Running == mainPc # "exited"

\* ======================================================= interaction loop
\* App::update, elapsed() < 2 s: nothing is refreshed
UpdateSkip ==
    /\ mainPc = "update"
    /\ mainPc' = "draw"
    /\ UNCHANGED <<mode, issues, lock, key, i, ops, scanVars, res, frame, call, confirmed>>

\* App::update, elapsed() >= 2 s: refresh_all, then update_top_processes
\* samples and ranks the process table and goes for the lock
UpdateTick ==
    /\ mainPc = "update"
    /\ mainPc' = "update_top_processes"
    /\ UNCHANGED <<mode, issues, lock, key, i, ops, scanVars, res, frame, call, confirmed>>

\* mutant of WriteTopProcesses: the tick stores a whole IssuesData built
\* from the default
WriteTopProcessesWhole ==
    /\ mainPc = "update_top_processes"
    /\ lock = "free"
    /\ \E table \in ProcessTables :
           issues' = [IssuesDefault EXCEPT !.top_processes = RankProcesses(table)]
    /\ mainPc' = "draw"
    /\ UNCHANGED <<mode, lock, key, i, ops, scanVars, res, frame, call, confirmed>>

\* update_top_processes lines 127-129: lock, replace top_processes, unlock.
\* The table sampled before the lock is drawn in the step that stores it:
\* it is a local nothing else reads in between.
WriteTopProcesses ==
    /\ mainPc = "update_top_processes"
    /\ lock = "free"
    /\ \E table \in ProcessTables :
           issues' = [issues EXCEPT !.top_processes = RankProcesses(table)]
    /\ mainPc' = "draw"
    /\ UNCHANGED <<mode, lock, key, i, ops, scanVars, res, frame, call, confirmed>>

\* terminal.draw(|f| ui(f, app)): render_issues, render_cleanup_menu and
\* render_kill_process_menu each take the lock before they build widgets
DrawLock ==
    /\ mainPc = "draw"
    /\ lock = "free"
    /\ lock' = "main"
    /\ mainPc' = "render"
    /\ UNCHANGED <<mode, issues, key, i, ops, scanVars, res, frame, call, confirmed>>

\* mutant of RenderDone: the process list is refreshed after the frame is
\* drawn instead of before
RenderDoneThenRefresh ==
    /\ mainPc = "render"
    /\ frame' = ui(mode, issues)
    /\ \E table \in ProcessTables :
           issues' = [issues EXCEPT !.top_processes = RankProcesses(table)]
    /\ lock' = "free"
    /\ mainPc' = "poll"
    /\ UNCHANGED <<mode, key, i, ops, scanVars, res, call, confirmed>>

\* the render function builds and renders its widgets with the guard alive,
\* returns (guard dropped), and the frame is flushed
RenderDone ==
    /\ mainPc = "render"
    /\ frame' = ui(mode, issues)
    /\ lock' = "free"
    /\ mainPc' = "poll"
    /\ UNCHANGED <<mode, issues, key, i, ops, scanVars, res, call, confirmed>>

\* terminal.draw(..)? fails: run_app returns the error
DrawError ==
    /\ mainPc = "render"
    /\ lock' = "free"
    /\ mainPc' = "exited"
    /\ res' = "Err"
    /\ UNCHANGED <<mode, issues, key, i, ops, scanVars, frame, call, confirmed>>

\* event::poll(100 ms) times out: next iteration
PollTimeout ==
    /\ mainPc = "poll"
    /\ mainPc' = "update"
    /\ frame' = NoFrame
    /\ UNCHANGED <<mode, issues, lock, key, i, ops, scanVars, res, call, confirmed>>

\* event::read() gives an event that is no Event::Key (mouse, resize)
PollOther ==
    /\ mainPc = "poll"
    /\ mainPc' = "update"
    /\ key' = "none"
    /\ frame' = NoFrame
    /\ UNCHANGED <<mode, issues, lock, i, ops, scanVars, res, call, confirmed>>

\* event::read() gives Event::Key(key)
PollKey ==
    /\ mainPc = "poll"
    /\ \E k \in KeyCodes : key' = k
    /\ mainPc' = "handle"
    /\ UNCHANGED <<mode, issues, lock, i, ops, scanVars, res, frame, call, confirmed>>

\* event::poll(..)? or event::read()? fails: run_app returns the error
PollError ==
    /\ mainPc = "poll"
    /\ mainPc' = "exited"
    /\ res' = "Err"
    /\ UNCHANGED <<mode, issues, lock, key, i, ops, scanVars, frame, call, confirmed>>

\* ------------------------------------------------------------ key handling
\* mutant of CleanupUp: up stops at the first option instead of wrapping
CleanupUpNoWrap(selected) == IF selected > 0 THEN selected - 1 ELSE 0

\* line 318: if *selected > 0 { selected - 1 } else { 3 }
CleanupUp(selected) == IF selected > 0 THEN selected - 1 ELSE LastOption

\* line 322: if *selected < 3 { selected + 1 } else { 0 }
CleanupDown(selected) == IF selected < LastOption THEN selected + 1 ELSE 0

\* lines 341-342: max = len.saturating_sub(1); selected - 1, or max at 0
KillUp(selected, len) ==
    LET max == SaturatingSub1(len)
    IN  IF selected > 0 THEN selected - 1 ELSE max

\* lines 347-348: max = len.saturating_sub(1); selected + 1, or 0 at max
KillDown(selected, len) ==
    LET max == SaturatingSub1(len)
    IN  IF selected < max THEN selected + 1 ELSE 0

\* the handler is over: `key` goes out of scope, next loop iteration
EndOfArm ==
    /\ mainPc' = "update"
    /\ key' = "none"
    /\ frame' = NoFrame

\* AppMode::Normal arm (lines 306-312)
HandleNormal ==
    /\ mainPc = "handle"
    /\ mode.kind = "Normal"
    /\ IF key = "q"
       THEN \* return Ok(())
            /\ mainPc' = "exited" /\ res' = "Ok"
            /\ key' = "none" /\ UNCHANGED <<mode, frame>>
       ELSE /\ EndOfArm
            /\ mode' = IF key = "c" THEN CleanupMenu(0) ELSE mode
            /\ res' = res
    /\ UNCHANGED <<issues, lock, i, ops, scanVars, call, confirmed>>

\* mutant of HandleCleanupMenu: `q` in the menu ends the loop
HandleCleanupMenuQuits ==
    /\ mainPc = "handle"
    /\ mode.kind = "CleanupMenu"
    /\ CASE key = "Enter" /\ mode.selected # LastOption ->
                /\ mainPc' = "exec_lock" /\ UNCHANGED <<mode, key, frame, res>>
                /\ confirmed' = IF issues.scanning THEN "scanning" ELSE "published"
         [] key = "q" ->
                /\ mainPc' = "exited" /\ res' = "Ok"
                /\ key' = "none" /\ UNCHANGED <<mode, frame, confirmed>>
         [] OTHER ->
                /\ EndOfArm
                /\ UNCHANGED <<res, confirmed>>
                /\ mode' = CASE key = "Esc"     -> Normal
                              [] key = "Up"   -> CleanupMenu(CleanupUp(mode.selected))
                              [] key = "Down" -> CleanupMenu(CleanupDown(mode.selected))
                              [] key = "Enter"        -> KillProcessMenu(0)
                              [] OTHER                -> mode
    /\ UNCHANGED <<issues, lock, i, ops, scanVars, call>>

\* AppMode::CleanupMenu arm (lines 313-334)
HandleCleanupMenu ==
    /\ mainPc = "handle"
    /\ mode.kind = "CleanupMenu"
    /\ IF key = "Enter" /\ mode.selected # LastOption
       THEN \* execute_cleanup(app, *selected) is entered
            /\ mainPc' = "exec_lock" /\ UNCHANGED <<mode, key, frame>>
            /\ confirmed' = IF issues.scanning THEN "scanning" ELSE "published"
       ELSE /\ EndOfArm
            /\ confirmed' = confirmed
            /\ mode' = CASE key \in {"q", "Esc"}  -> Normal
                          [] key = "Up"   -> CleanupMenu(CleanupUp(mode.selected))
                          [] key = "Down" -> CleanupMenu(CleanupDown(mode.selected))
                          [] key = "Enter"        -> KillProcessMenu(0)
                          [] OTHER                -> mode
    /\ UNCHANGED <<issues, lock, i, ops, scanVars, res, call>>

\* mutant of HandleKillMenu: the cancel keys fall into the confirm arm
HandleKillMenuCancelKills ==
    /\ mainPc = "handle"
    /\ mode.kind = "KillProcessMenu"
    /\ CASE key \in {"Up", "Down"} ->
                mainPc' = "nav_lock" /\ UNCHANGED <<mode, key, frame>>
         [] key \in {"Enter", "q", "Esc"} ->
                mainPc' = "kill_lock" /\ UNCHANGED <<mode, key, frame>>
         [] OTHER ->
                /\ EndOfArm
                /\ mode' = mode
    /\ UNCHANGED <<issues, lock, i, ops, scanVars, res, call, confirmed>>

\* AppMode::KillProcessMenu arm (lines 335-356)
HandleKillMenu ==
    /\ mainPc = "handle"
    /\ mode.kind = "KillProcessMenu"
    /\ CASE key \in {"Up", "Down"} ->
                \* app.issues.lock().unwrap() comes first
                mainPc' = "nav_lock" /\ UNCHANGED <<mode, key, frame>>
         [] key = "Enter" ->
                \* kill_process(app, *selected) is entered
                mainPc' = "kill_lock" /\ UNCHANGED <<mode, key, frame>>
         [] OTHER ->
                /\ EndOfArm
                /\ mode' = IF key \in {"q", "Esc"} THEN CleanupMenu(0) ELSE mode
    /\ UNCHANGED <<issues, lock, i, ops, scanVars, res, call, confirmed>>

\* KillProcessMenu Up/Down: the guard `issues` is taken (lines 340, 346)
NavLock ==
    /\ mainPc = "nav_lock"
    /\ lock = "free"
    /\ lock' = "main"
    /\ mainPc' = "nav"
    /\ UNCHANGED <<mode, issues, key, i, ops, scanVars, res, frame, call, confirmed>>

\* mutant of KillNavigate: the guard outlives the arm
KillNavigateKeepsGuard ==
    /\ mainPc = "nav"
    /\ mode' = IF key = "Up"
               THEN KillProcessMenu(KillUp(mode.selected, Len(issues.top_processes)))
               ELSE KillProcessMenu(KillDown(mode.selected, Len(issues.top_processes)))
    /\ EndOfArm
    /\ UNCHANGED <<issues, lock, i, ops, scanVars, res, call, confirmed>>

\* KillProcessMenu Up/Down: the new index from the length read under the
\* guard; the guard is dropped at the end of the arm
KillNavigate ==
    /\ mainPc = "nav"
    /\ mode' = IF key = "Up"
               THEN KillProcessMenu(KillUp(mode.selected, Len(issues.top_processes)))
               ELSE KillProcessMenu(KillDown(mode.selected, Len(issues.top_processes)))
    /\ lock' = "free"
    /\ EndOfArm
    /\ UNCHANGED <<issues, i, ops, scanVars, res, call, confirmed>>

\* -------------------------------------------------------- ActionExecutor
\* one destructive call: what it is, what it targets, and whether it
\* succeeded (every caller discards the result with `let _ =`)
Call(kind, target, ok) == [kind |-> kind, target |-> target, ok |-> ok]

\* execute_cleanup line 364: let issues = app.issues.lock().unwrap();
ExecLock ==
    /\ mainPc = "exec_lock"
    /\ lock = "free"
    /\ lock' = "main"
    /\ mainPc' = "exec_io"
    /\ i' = 0
    /\ UNCHANGED <<mode, issues, key, ops, scanVars, res, frame, call, confirmed>>

\* mutant of ExecRemove: a failed delete is returned with `?`
ExecRemovePropagates ==
    /\ mainPc = "exec_io"
    /\ mode.selected = 0
    /\ i < Len(issues.node_modules)
    /\ \E ok \in BOOLEAN :
           /\ ops' = Append(ops, Call("remove_dir_all", issues.node_modules[i + 1].path, ok))
           /\ IF ok THEN UNCHANGED <<mainPc, res, lock>>
                    ELSE mainPc' = "exited" /\ res' = "Err" /\ lock' = "free"
    /\ i' = i + 1
    /\ UNCHANGED <<mode, issues, key, scanVars, frame, call, confirmed>>

\* option 0, one iteration of `for nm in &issues.node_modules`:
\* remove_dir_all(&nm.path), result discarded
ExecRemove ==
    /\ mainPc = "exec_io"
    /\ mode.selected = 0
    /\ i < Len(issues.node_modules)
    /\ \E ok \in BOOLEAN :
           ops' = Append(ops, Call("remove_dir_all", issues.node_modules[i + 1].path, ok))
    /\ i' = i + 1
    /\ UNCHANGED <<mode, issues, lock, mainPc, key, scanVars, res, frame, call, confirmed>>

\* mutant of ExecPrune: option 1 runs the package-manager cleanup
ExecPruneRunsBrew ==
    /\ mainPc = "exec_io"
    /\ mode.selected = 1
    /\ i = 0
    /\ \E ok \in BOOLEAN : ops' = Append(ops, Call("brew_cleanup", 0, ok))
    /\ i' = 1
    /\ UNCHANGED <<mode, issues, lock, mainPc, key, scanVars, res, frame, call, confirmed>>

\* option 1: docker image prune -af, output() awaited, result discarded
ExecPrune ==
    /\ mainPc = "exec_io"
    /\ mode.selected = 1
    /\ i = 0
    /\ \E ok \in BOOLEAN : ops' = Append(ops, Call("docker_prune", 0, ok))
    /\ i' = 1
    /\ UNCHANGED <<mode, issues, lock, mainPc, key, scanVars, res, frame, call, confirmed>>

\* option 2: brew cleanup -s, output() awaited, result discarded
ExecBrew ==
    /\ mainPc = "exec_io"
    /\ mode.selected = 2
    /\ i = 0
    /\ \E ok \in BOOLEAN : ops' = Append(ops, Call("brew_cleanup", 0, ok))
    /\ i' = 1
    /\ UNCHANGED <<mode, issues, lock, mainPc, key, scanVars, res, frame, call, confirmed>>

\* mutant of ExecFinished: the loop over the entries stops at a failed delete
ExecFinishedAtFailure ==
    CASE mode.selected = 0       -> \/ i >= Len(issues.node_modules)
                                    \/ (ops # <<>> /\ ~ops[Len(ops)].ok)
      [] mode.selected \in {1, 2} -> i = 1
      [] OTHER                   -> TRUE

\* the match arm of execute_cleanup has nothing left to do
ExecFinished ==
    CASE mode.selected = 0       -> i >= Len(issues.node_modules)
      [] mode.selected \in {1, 2} -> i = 1
      [] OTHER                   -> TRUE

\* mutant of ExecReturn: a cleanup starts the scan again
ExecReturnRescans ==
    /\ mainPc = "exec_io"
    /\ ExecFinished
    /\ lock' = "free"
    /\ mode' = Normal
    /\ i' = 0
    /\ ops' = <<>>
    /\ confirmed' = "none"
    /\ EndOfArm
    /\ issues' = [issues EXCEPT !.scanning = TRUE]
    /\ scanPc' = "walk"
    /\ UNCHANGED <<node_modules, docker_images, output, res, call>>

\* mutant of ExecReturn: clean caches empties the list it has gone through
ExecReturnClearsCaches ==
    /\ mainPc = "exec_io"
    /\ ExecFinished
    /\ lock' = "free"
    /\ mode' = Normal
    /\ i' = 0
    /\ ops' = <<>>
    /\ confirmed' = "none"
    /\ EndOfArm
    /\ issues' = IF mode.selected = 0 THEN [issues EXCEPT !.node_modules = <<>>]
                                      ELSE issues
    /\ UNCHANGED <<scanVars, res, call>>

\* execute_cleanup returns Ok(()) (guard dropped); line 330 sets Normal
ExecReturn ==
    /\ mainPc = "exec_io"
    /\ ExecFinished
    /\ lock' = "free"
    /\ mode' = Normal
    /\ i' = 0
    /\ ops' = <<>>
    /\ confirmed' = "none"
    /\ EndOfArm
    /\ UNCHANGED <<issues, scanVars, res, call>>

\* kill_process line 389: let issues = app.issues.lock().unwrap();
KillLock ==
    /\ mainPc = "kill_lock"
    /\ lock = "free"
    /\ lock' = "main"
    /\ mainPc' = "kill_io"
    /\ UNCHANGED <<mode, issues, key, i, ops, scanVars, res, frame, call, confirmed>>

\* kill_process lines 391-396: if let Some(process) = top_processes.get(index)
\* then kill -9 <pid>, output() awaited, result discarded
KillProcess ==
    /\ mainPc = "kill_io"
    /\ IF mode.selected < Len(issues.top_processes)
       THEN \E ok \in BOOLEAN :
               ops' = Append(ops, Call("kill", issues.top_processes[mode.selected + 1].pid, ok))
       ELSE ops' = ops
    /\ mainPc' = "kill_ret"
    /\ UNCHANGED <<mode, issues, lock, key, i, scanVars, res, frame, call, confirmed>>

\* kill_process returns Ok(()) (guard dropped); line 353 sets CleanupMenu{0}
KillReturn ==
    /\ mainPc = "kill_ret"
    /\ lock' = "free"
    /\ mode' = CleanupMenu(0)
    /\ ops' = <<>>
    /\ EndOfArm
    /\ UNCHANGED <<issues, i, scanVars, res, call, confirmed>>

\* ============================================================== scanner
\* mutant of ScanWalk: the scanner takes the lock before it walks
ScanWalkUnderLock ==
    /\ Running
    /\ scanPc = "walk"
    /\ lock = "free"
    /\ lock' = "scanner"
    /\ \E w \in Walks : node_modules' = SortAndTruncate(scan_node_modules(w))
    /\ scanPc' = "docker_images"
    /\ UNCHANGED <<issues, mainVars, call, docker_images, output>>

\* scan_issues lines 176-178: the walk, then sort and truncate
ScanWalk ==
    /\ Running
    /\ scanPc = "walk"
    /\ \E w \in Walks : node_modules' = SortAndTruncate(scan_node_modules(w))
    /\ scanPc' = "docker_images"
    /\ UNCHANGED <<issues, lock, mainVars, call, docker_images, output>>

\* mutant of ScanDocker: a tool that is absent or fails ends the scanner
\* thread (an unwrap of the command's result) before anything is published
ScanDockerAbortsOnFailure ==
    /\ Running
    /\ scanPc = "docker_images"
    /\ \E run \in ToolRuns :
           /\ output' = OutputStatus(run)
           /\ docker_images' = scan_docker_images(run)
           /\ scanPc' = IF run.spawned /\ run.success THEN "lock" ELSE "done"
    /\ UNCHANGED <<issues, lock, mainVars, call, node_modules>>

\* scan_issues line 180: the image-listing subprocess, awaited
ScanDocker ==
    /\ Running
    /\ scanPc = "docker_images"
    /\ \E run \in ToolRuns :
           /\ output' = OutputStatus(run)
           /\ docker_images' = scan_docker_images(run)
    /\ scanPc' = "lock"
    /\ UNCHANGED <<issues, lock, mainVars, call, node_modules>>

\* scan_issues line 182: issues.lock()
ScanLock ==
    /\ Running
    /\ scanPc = "lock"
    /\ lock = "free"
    /\ lock' = "scanner"
    /\ scanPc' = "publish"
    /\ UNCHANGED <<issues, mainVars, call, node_modules, docker_images, output>>

\* mutant of ScanPublish: the flag is cleared in a critical section of its
\* own, the lists are stored in a second one
ScanPublishTorn ==
    /\ Running
    /\ scanPc = "publish"
    /\ IF issues.scanning
       THEN /\ issues' = [issues EXCEPT !.scanning = FALSE]
            /\ scanPc' = scanPc
       ELSE /\ lock = "free"
            /\ issues' = [issues EXCEPT !.node_modules = node_modules,
                                        !.docker_images = docker_images]
            /\ scanPc' = "done"
    /\ lock' = "free"
    /\ UNCHANGED <<mainVars, call, node_modules, docker_images, output>>

\* mutant of ScanPublish: the lists are stored but scanning is not cleared
ScanPublishKeepsScanning ==
    /\ Running
    /\ scanPc = "publish"
    /\ issues' = [issues EXCEPT !.node_modules = node_modules,
                                !.docker_images = docker_images]
    /\ lock' = "free"
    /\ scanPc' = "done"
    /\ UNCHANGED <<mainVars, call, node_modules, docker_images, output>>

\* scan_issues lines 183-186: the three fields are written under the
\* guard, which is dropped at the end of the block
ScanPublish ==
    /\ Running
    /\ scanPc = "publish"
    /\ issues' = [issues EXCEPT !.node_modules = node_modules,
                                !.docker_images = docker_images,
                                !.scanning = FALSE]
    /\ lock' = "free"
    /\ scanPc' = "done"
    /\ UNCHANGED <<mainVars, call, node_modules, docker_images, output>>

\* ================================================================= Spec
MainNext ==
    \/ UpdateSkip \/ UpdateTick \/ WriteTopProcesses
    \/ DrawLock \/ RenderDone \/ DrawError
    \/ PollTimeout \/ PollOther \/ PollKey \/ PollError
    \/ HandleNormal \/ HandleCleanupMenu \/ HandleKillMenu
    \/ NavLock \/ KillNavigate
    \/ ExecLock \/ ExecRemove \/ ExecPrune \/ ExecBrew \/ ExecReturn
    \/ KillLock \/ KillProcess \/ KillReturn

ScanNext == ScanWalk \/ ScanDocker \/ ScanLock \/ ScanPublish

Next == MainNext \/ ScanNext

Spec == Init /\ [][Next]_vars

\* Fair scheduling of both threads.  Every step of the interaction loop
\* returns (the poll has a 100 ms timeout, subprocesses are awaited), and
\* so does every step of the scanner.  The scanner's lock request is
\* served although the loop takes the lock again and again: the loop
\* leaves it free during every 100 ms poll, when a waiting thread gets it.
FairSpec ==
    /\ Spec
    /\ WF_vars(MainNext)
    /\ WF_vars(ScanWalk)
    /\ WF_vars(ScanDocker)
    /\ SF_vars(ScanLock)
    /\ WF_vars(ScanPublish)

\* ============================================================== claims
\* where each thread is inside a blocking call
MainBlockingIO ==
    \/ mainPc \in {"render", "poll"}
    \/ mainPc = "exec_io" /\ ~ExecFinished
    \/ mainPc = "kill_io" /\ mode.selected < Len(issues.top_processes)

ScannerBlockingIO == scanPc \in {"walk", "docker_images"}

\* C1: no thread holds the IssueState lock while it performs a blocking
\* I/O call (walk, subprocess, recursive delete, input poll, render).
C1_NoLockAcrossIO ==
    /\ lock = "main" => ~MainBlockingIO
    /\ lock = "scanner" => ~ScannerBlockingIO

\* C2: a destructive call is issued only by the interaction loop, while it
\* handles a confirm (Enter) read in CleanupMenu with selected in {0,1,2}
\* or in KillProcessMenu; a kill only in KillProcessMenu, the other calls
\* only in CleanupMenu; never in Normal, never for another key, never by
\* a refresh tick or by the scanner.
C2_DestructiveOnlyOnConfirm ==
    [][ (ops' # ops /\ ops' # <<>>) =>
          /\ key = "Enter"
          /\ mainPc \in {"exec_io", "kill_io"}
          /\ UNCHANGED scanVars
          /\ \/ /\ mode.kind = "CleanupMenu"
                /\ mode.selected \in {0, 1, 2}
                /\ ops'[Len(ops')].kind # "kill"
             \/ /\ mode.kind = "KillProcessMenu"
                /\ ops'[Len(ops')].kind = "kill" ]_vars

C2_Witness == ops # <<>> /\ ops[1].kind = "kill" /\ scanPc = "walk"

\* a KillProcessMenu index that points into the current process list
\* (0 when the list is empty)
ValidKillIndex ==
    IF Len(issues.top_processes) = 0
    THEN mode.selected = 0
    ELSE mode.selected < Len(issues.top_processes)

\* C3: wherever selected is read for rendering or for an action it is a
\* valid index: 0..3 in CleanupMenu, an index of the current top-process
\* list in KillProcessMenu, also after refresh ticks shrank the list.
C3_SelectedValidWhenRead ==
    /\ (mode.kind = "CleanupMenu" /\ mainPc \in {"render", "exec_io"})
          => mode.selected \in 0..LastOption
    /\ (mode.kind = "KillProcessMenu" /\ mainPc \in {"render", "kill_io"})
          => ValidKillIndex

\* C4: after an up or a down input in KillProcessMenu, selected is at most
\* n-1 for the list length n >= 1 read at that moment, and 0 for n = 0,
\* whatever selected was before.
C4_KillNavigationBounded ==
    [][ (mainPc = "nav" /\ mainPc' # "nav") =>
          mode'.selected <= SaturatingSub1(Len(issues.top_processes)) ]_vars

\* C5: a confirm in KillProcessMenu issues exactly one termination request,
\* to the pid at index selected of the current list (none when the list is
\* empty), and then the mode is CleanupMenu{0}; a cancel issues none and
\* gives CleanupMenu{0}.
C5_KillConfirm ==
    /\ [](mainPc = "kill_ret" =>
            IF Len(issues.top_processes) = 0
            THEN ops = <<>>
            ELSE /\ Len(ops) = 1
                 /\ ops[1].kind = "kill"
                 /\ mode.selected < Len(issues.top_processes)
                 /\ ops[1].target = issues.top_processes[mode.selected + 1].pid)
    /\ [][ /\ (mainPc = "kill_ret" /\ mainPc' # "kill_ret") => mode' = CleanupMenu(0)
           /\ (mainPc = "handle" /\ mainPc' # "handle" /\ mode.kind = "KillProcessMenu"
                 /\ key \in {"q", "Esc"}) => (mode' = CleanupMenu(0) /\ ops' = <<>>) ]_vars

\* C6: the scanner publishes atomically.  Whenever the scanner does not
\* hold the lock (so the interaction loop can hold it and read), either
\* scanning is true and both lists are still empty, or scanning is false,
\* the scanner is done and both lists are its final result.
C6_AtomicPublish ==
    lock # "scanner" =>
        \/ /\ issues.scanning
           /\ issues.node_modules = <<>>
           /\ issues.docker_images = <<>>
        \/ /\ ~issues.scanning
           /\ scanPc = "done"
           /\ issues.node_modules = node_modules
           /\ issues.docker_images = docker_images

C6_Witness ==
    /\ lock = "main"
    /\ mainPc = "render"
    /\ ~issues.scanning
    /\ issues.node_modules # <<>>
    /\ issues.docker_images # <<>>

\* what is published when the scan is over: the cache entries the walk
\* collected, and no image when the tool was absent or failed
ScanResultPublished ==
    ~issues.scanning =>
        /\ issues.node_modules = node_modules
        /\ output \in {"absent", "failed"} => issues.docker_images = <<>>

\* C7 as stated: under fair scheduling scanning starts true and eventually
\* becomes false in every execution, whatever the operator does and
\* however the image-listing tool ends; with the tool absent or failing
\* the image list is empty and the walk's cache entries are published.
C7_ScanningEventuallyFalse ==
    /\ issues.scanning
    /\ <>(~issues.scanning)
    /\ []ScanResultPublished

\* C7 amended: under fair scheduling scanning starts true and eventually
\* becomes false in every execution in which the process is not ended
\* first (quit in Normal, or an I/O error of draw, poll or read ends
\* run_app and with it the scanner thread); the published result is as
\* stated.
C7_ScanningFalseUnlessExit ==
    /\ issues.scanning
    /\ <>(~issues.scanning \/ mainPc = "exited")
    /\ []ScanResultPublished

C7_Witness ==
    /\ ~issues.scanning
    /\ output = "absent"
    /\ issues.node_modules # <<>>
    /\ issues.docker_images = <<>>

\* the scanner's positions, in program order
ScanRank(pc) ==
    CASE pc = "walk"          -> 0
      [] pc = "docker_images" -> 1
      [] pc = "lock"          -> 2
      [] pc = "publish"       -> 3
      [] pc = "done"          -> 4

\* C8: the scanner runs once.  The one scanner thread only moves forward
\* and is never started again; the cache list, the image list and the
\* scanning flag change in a single step, the scanner's publish; once
\* scanning is false it stays false and both lists stay as they are, also
\* across cleanup actions.
C8_ScannerRunsOnce ==
    [][ /\ ScanRank(scanPc') >= ScanRank(scanPc)
        /\ (<<issues.node_modules, issues.docker_images, issues.scanning>>'
               # <<issues.node_modules, issues.docker_images, issues.scanning>>)
             => (scanPc = "publish" /\ scanPc' = "done" /\ issues.scanning)
        /\ ~issues.scanning =>
               /\ ~issues'.scanning
               /\ issues'.node_modules = issues.node_modules
               /\ issues'.docker_images = issues.docker_images ]_vars

C8_Witness ==
    /\ ~issues.scanning
    /\ scanPc = "done"
    /\ mainPc = "exec_io"
    /\ Len(ops) = 2

\* the targets of the calls in ops, in order
Targets(calls) == [n \in 1..Len(calls) |-> calls[n].target]

\* the calls option `option` stands for, given the cache list
CallsOfOption(option, calls) ==
    CASE option = 0 ->
            /\ \A n \in 1..Len(calls) : calls[n].kind = "remove_dir_all"
            /\ Targets(calls) =
                  [n \in 1..Len(issues.node_modules) |-> issues.node_modules[n].path]
      [] option = 1 -> Len(calls) = 1 /\ calls[1].kind = "docker_prune"
      [] option = 2 -> Len(calls) = 1 /\ calls[1].kind = "brew_cleanup"
      [] OTHER -> FALSE

\* C9: from Normal the open-cleanup key gives CleanupMenu{0}.  In
\* CleanupMenu a confirm with selected in {0,1,2} enters the executor
\* once, which issues exactly the calls of option selected, and then the
\* mode is Normal; a confirm with selected = 3 issues nothing and gives
\* KillProcessMenu{0}; a cancel issues nothing and gives Normal.
C9_CleanupMenuConfirm ==
    [][ /\ (mainPc = "handle" /\ mainPc' # "handle" /\ mode = Normal /\ key = "c")
             => mode' = CleanupMenu(0)
        /\ (mainPc = "handle" /\ mainPc' # "handle" /\ mode.kind = "CleanupMenu")
             => CASE key = "Enter" /\ mode.selected \in {0, 1, 2} ->
                        mainPc' = "exec_lock" /\ mode' = mode /\ ops' = <<>>
                  [] key = "Enter" /\ mode.selected = 3 ->
                        mainPc' = "update" /\ mode' = KillProcessMenu(0) /\ ops' = <<>>
                  [] key \in {"q", "Esc"} ->
                        mainPc' = "update" /\ mode' = Normal /\ ops' = <<>>
                  [] OTHER -> TRUE
        /\ (mainPc = "exec_lock" /\ mainPc' # "exec_lock")
             => (mainPc' = "exec_io" /\ ops' = <<>>)
        /\ (mainPc = "exec_io" /\ mainPc' # "exec_io")
             => /\ mainPc' = "update"
                /\ mode.kind = "CleanupMenu"
                /\ CallsOfOption(mode.selected, ops)
                /\ mode' = Normal ]_vars

C9_Witness ==
    /\ mainPc = "exec_io"
    /\ mode = CleanupMenu(1)
    /\ Len(ops) = 1

\* C10: CleanupMenu navigation wraps around its 4 options: up gives
\* (selected - 1) mod 4, down gives (selected + 1) mod 4, and selected
\* stays in 0..3.
C10_CleanupNavigationWraps ==
    /\ [](mode.kind = "CleanupMenu" => mode.selected \in 0..3)
    /\ [][ (mainPc = "handle" /\ mainPc' # "handle" /\ mode.kind = "CleanupMenu")
             => /\ key = "Up"
                     => mode' = CleanupMenu((mode.selected + 3) % 4)
                /\ key = "Down"
                     => mode' = CleanupMenu((mode.selected + 1) % 4) ]_vars

C10_Witness ==
    /\ mainPc = "handle"
    /\ mode = CleanupMenu(3)
    /\ key = "Down"

\* ------------------------------------------------------------------- C11
\* run_app has just returned in this step
Exits == mainPc # "exited" /\ mainPc' = "exited"

\* the step is the Normal arm handling `q`
QuitFromNormal == mainPc = "handle" /\ mode = Normal /\ key = "q"

\* the step of the loop that handles a cancel key in one of the two menus
\* changes the mode and goes on with the next iteration
CancelChangesMode ==
    (/\ mainPc = "handle" /\ mainPc' # "handle"
     /\ key \in {"q", "Esc"} /\ mode.kind # "Normal")
        => /\ mainPc' = "update"
           /\ mode' = IF mode.kind = "CleanupMenu" THEN Normal
                                                   ELSE CleanupMenu(0)

InDestructive == mainPc \in {"exec_lock", "exec_io", "kill_lock", "kill_io", "kill_ret"}

\* a step of the loop itself (not of the scanner) taken there
DestructiveStep == InDestructive /\ <<mainPc, i, ops>>' # <<mainPc, i, ops>>

\* C12: no destructive action propagates an error.  Whatever the outcome of
\* each delete, prune, package cleanup or kill, no step of execute_cleanup
\* or kill_process ends the loop or changes IssuesData, and the confirm
\* completes with mode Normal (options 0-2) resp. CleanupMenu{0} (kill)
\* and the loop at its next iteration.
C12_NoErrorPropagates ==
    [][ DestructiveStep =>
          /\ mainPc' # "exited" /\ res' = "none"
          /\ issues' = issues
          /\ (mainPc = "exec_io" /\ mainPc' # "exec_io")
                => (mainPc' = "update" /\ mode' = Normal)
          /\ (mainPc = "kill_ret")
                => (mainPc' = "update" /\ mode' = CleanupMenu(0)) ]_vars

\* clean caches is about to return after its last delete failed
C12_Witness ==
    /\ mainPc = "exec_io" /\ mode.selected = 0 /\ ExecFinished
    /\ ops # <<>> /\ ~ops[Len(ops)].ok

\* ------------------------------------------------------------------- C13
\* the paths of the CacheEntries in IssuesData, in order
CachePaths == [n \in 1..Len(issues.node_modules) |-> issues.node_modules[n].path]

\* C13: when clean caches (option 0) returns, it has attempted one
\* recursive delete per CacheEntry of IssuesData, in order, each once and
\* for no other path, whether or not earlier deletes failed; and IssuesData
\* did not change between the confirm and the return.
C13_CleanCachesDeletesEach ==
    /\ (mainPc = "exec_io" /\ mode.selected = 0 /\ ExecFinished)
          => /\ Targets(ops) = CachePaths
             /\ \A n \in 1..Len(ops) : ops[n].kind = "remove_dir_all"
             /\ \A a, b \in 1..Len(ops) : ops[a].target = ops[b].target => a = b
    /\ (mainPc = "exec_io" /\ mode.selected = 0)
          => /\ lock = "main"
             /\ Targets(ops) = SubSeq(CachePaths, 1, i)

\* clean caches has gone through two entries although the first delete failed
C13_Witness ==
    /\ mainPc = "exec_io" /\ mode.selected = 0 /\ ExecFinished
    /\ Len(ops) = 2 /\ ~ops[1].ok

\* ------------------------------------------------------------------- C14
\* C14: the scanner holds the lock only during its publish step.  While it
\* walks or waits for the image-listing command, scanning is still true and
\* the lock is not the scanner's; so a refresh tick that is about to write
\* top_processes finds the lock free and can complete at once.
C14_RefreshNotBlockedByScan ==
    /\ (lock = "scanner") => (scanPc = "publish")
    /\ ScannerBlockingIO => issues.scanning
    /\ (ScannerBlockingIO /\ mainPc = "update_top_processes") => (lock = "free")

\* a refresh tick has written top_processes while the walk is still going on
C14_Witness ==
    /\ scanPc = "walk" /\ issues.scanning
    /\ issues.top_processes # <<>>
    /\ mainPc = "draw"

\* ------------------------------------------------------------------- C15
\* the three fields the scanner publishes
ScanFields(d) == <<d.node_modules, d.docker_images, d.scanning>>

\* C15: the two writers touch disjoint fields through the same lock.  A
\* step that changes top_processes is the refresh tick and leaves
\* node_modules, docker_images and scanning unchanged; a step that changes
\* one of those three is the scanner's publish and leaves top_processes
\* unchanged; no step changes IssuesData while a reader holds the lock; and
\* once the scanner is done its three fields stay what it published,
\* whatever ticks follow.
C15_DisjointWriters ==
    [][ /\ (issues'.top_processes # issues.top_processes)
             => /\ mainPc = "update_top_processes" /\ lock = "free"
                /\ ScanFields(issues') = ScanFields(issues)
        /\ (ScanFields(issues') # ScanFields(issues))
             => /\ scanPc = "publish" /\ lock = "scanner"
                /\ issues'.top_processes = issues.top_processes
        /\ (lock = "main") => (issues' = issues)
        /\ (scanPc = "done")
             => ScanFields(issues') = <<node_modules, docker_images, FALSE>> ]_vars

\* both writes are in IssuesData: the scanner's cache entries and a tick's
\* process list
C15_Witness ==
    /\ scanPc = "done" /\ ~issues.scanning
    /\ issues.node_modules # <<>>
    /\ issues.top_processes # <<>>

\* ================================================== scan_issues on its own
\* sizes calculate_dir_size can return: above the floor ...
BigSizes == {200000000, 500000000}
\* ... and not above it (the floor itself included)
SmallSizes == {50000000, SizeFloor}

\* scan_issues is about to run; the walk has met no directory yet
InitScan ==
    /\ InitApp
    /\ call = [fn |-> "scan_issues", arg |-> <<>>, done |-> FALSE, ret |-> <<>>]

\* the matches of a walk whose size is above the floor
AboveFloor(w) == SelectSeq(w, LAMBDA e : e.size > SizeFloor)

\* scan_node_modules lines 193-207: the walk meets one more node_modules
\* directory, of some size; call.arg is the walk so far, every directory
\* with its own path (its place in the walk).  Up to MaxFound directories
\* above the floor are met, and at most one that is not.
WalkMeets ==
    /\ call.fn = "scan_issues"
    /\ ~call.done
    /\ \E size \in BigSizes \cup SmallSizes :
          /\ IF size > SizeFloor
             THEN Len(AboveFloor(call.arg)) < MaxFound
             ELSE AboveFloor(call.arg) = call.arg
          /\ call' = [call EXCEPT !.arg = Append(@, [path |-> Len(@) + 1, size |-> size])]
    /\ UNCHANGED <<issues, lock, mainVars, scanVars>>

\* the walk is over; scan_issues lines 176-178: what will be published as
\* node_modules
CallScan ==
    /\ call.fn = "scan_issues"
    /\ ~call.done
    /\ call' = [call EXCEPT !.done = TRUE,
                            !.ret = SortAndTruncate(scan_node_modules(call.arg))]
    /\ UNCHANGED <<issues, lock, mainVars, scanVars>>

SpecScan == InitScan /\ [][WalkMeets \/ CallScan]_vars

\* ------------------------------------------------------------------- C16
ScanReturned == call.fn = "scan_issues" /\ call.done

\* the entries of a sequence
Range(s) == { s[n] : n \in 1..Len(s) }

\* C16: for every walk, the entries published are entries of the walk with
\* a size above the floor, there are at most 10 of them, each once, and a
\* match above the floor is left out only when 10 are kept and none of the
\* kept ones is smaller than it.
C16_KeepsLargestAboveFloor ==
    ScanReturned =>
        LET w == call.arg
            r == call.ret
        IN  /\ Len(r) <= CacheCap
            /\ \A n \in 1..Len(r) : r[n].size > SizeFloor /\ r[n] \in Range(w)
            /\ \A a, b \in 1..Len(r) : r[a] = r[b] => a = b
            /\ \A m \in 1..Len(w) :
                 (w[m].size > SizeFloor /\ w[m] \notin Range(r))
                    => /\ Len(r) = CacheCap
                       /\ \A n \in 1..Len(r) : r[n].size >= w[m].size

\* a walk with a 50MB match and more than ten above the floor: the small
\* one and one above the floor are left out, a 500MB one is kept
C16_Witness ==
    /\ ScanReturned
    /\ \E m \in 1..Len(call.arg) : call.arg[m].size < SizeFloor
    /\ Len(call.arg) > CacheCap + 1
    /\ call.ret[1].size > call.ret[CacheCap].size

\* ------------------------------------------------------------------- C17
\* C17 as stated: the published entries are strictly descending by size.
C17_StrictlyDescending ==
    ScanReturned =>
        \A n \in 1..(Len(call.ret) - 1) : call.ret[n].size > call.ret[n + 1].size

\* C17 amended: the published entries are descending by size, equal sizes
\* allowed: no entry is smaller than the entry after it.
C17_Descending ==
    ScanReturned =>
        \A n \in 1..(Len(call.ret) - 1) : call.ret[n].size >= call.ret[n + 1].size

\* the walk met a smaller directory before a larger one and both are
\* published, the larger one first
C17_Witness ==
    /\ ScanReturned
    /\ Len(call.arg) >= 2 /\ Len(call.ret) >= 2
    /\ call.arg[1].size > SizeFloor /\ call.arg[1].size < call.arg[2].size
    /\ call.ret[1].size > call.ret[Len(call.ret)].size

\* ============================================ the usage figures on their own
\* an f64: a finite value num/den (den > 0), NaN, or +infinity
Finite(num, den) == [class |-> "finite", num |-> num, den |-> den]
NaN == [class |-> "NaN", num |-> 0, den |-> 1]
Infinity == [class |-> "inf", num |-> 0, den |-> 1]

\* a as f64 / b as f64 for unsigned a, b: IEEE division does not trap
FloatDiv(a, b) ==
    IF b > 0 THEN Finite(a, b)
    ELSE IF a = 0 THEN NaN ELSE Infinity

\* x * 100.0
TimesHundred(x) == IF x.class = "finite" THEN Finite(x.num * 100, x.den) ELSE x

\* the sum of f over the elements of a sequence
RECURSIVE SumOver(_, _)
SumOver(s, field) ==
    IF s = <<>> THEN 0 ELSE s[1][field] + SumOver(Tail(s), field)

\* App::disk_usage (lines 132-148)
disk_usage(disks) ==
    LET total == SumOver(disks, "total_space")
        used == total - SumOver(disks, "available_space")
    IN  [used |-> used, total |-> total,
         percentage |-> IF total > 0 THEN TimesHundred(FloatDiv(used, total))
                                     ELSE Finite(0, 1)]

\* App::memory_usage (lines 150-155): no test of total
memory_usage(sys) ==
    [used |-> sys.used_memory, total |-> sys.total_memory,
     percentage |-> TimesHundred(FloatDiv(sys.used_memory, sys.total_memory))]

\* App::swap_usage (lines 161-170)
swap_usage(sys) ==
    [used |-> sys.used_swap, total |-> sys.total_swap,
     percentage |-> IF sys.total_swap > 0
                    THEN TimesHundred(FloatDiv(sys.used_swap, sys.total_swap))
                    ELSE Finite(0, 1)]

\* what sysinfo reports: every disk with its total and available space
\* (available <= total), in units
DiskLists ==
    LET disk == { d \in [total_space : 0..MaxUnits, available_space : 0..MaxUnits] :
                    d.available_space <= d.total_space }
    IN  UNION { [1..n -> disk] : n \in 0..MaxDisks }

\* total and used memory, total and used swap (used <= total), in units
Systems ==
    { sys \in [total_memory : 0..MaxUnits, used_memory : 0..MaxUnits,
               total_swap : 0..MaxUnits, used_swap : 0..MaxUnits] :
        sys.used_memory <= sys.total_memory /\ sys.used_swap <= sys.total_swap }

Sample(fn, arg) == [fn |-> fn, arg |-> arg, done |-> FALSE, ret |-> <<>>]

\* render_metrics is about to ask for one of the three figures
InitMetrics ==
    /\ InitApp
    /\ call \in { Sample("disk_usage", d) : d \in DiskLists }
          \cup { Sample(fn, sys) : fn \in {"memory_usage", "swap_usage"}, sys \in Systems }

CallDiskUsage ==
    /\ call.fn = "disk_usage" /\ ~call.done
    /\ call' = [call EXCEPT !.done = TRUE, !.ret = disk_usage(call.arg)]
    /\ UNCHANGED <<issues, lock, mainVars, scanVars>>

CallMemoryUsage ==
    /\ call.fn = "memory_usage" /\ ~call.done
    /\ call' = [call EXCEPT !.done = TRUE, !.ret = memory_usage(call.arg)]
    /\ UNCHANGED <<issues, lock, mainVars, scanVars>>

CallSwapUsage ==
    /\ call.fn = "swap_usage" /\ ~call.done
    /\ call' = [call EXCEPT !.done = TRUE, !.ret = swap_usage(call.arg)]
    /\ UNCHANGED <<issues, lock, mainVars, scanVars>>

SpecMetrics == InitMetrics /\ [][CallDiskUsage \/ CallMemoryUsage \/ CallSwapUsage]_vars

\* ------------------------------------------------------------------- C18
UsageReturned == call.fn \in {"disk_usage", "memory_usage", "swap_usage"} /\ call.done

\* C18: for each of the three figures, total = 0 gives the percentage 0
\* (not NaN, not infinity), and used = total > 0 gives 100.
C18_PercentageAtTheEnds ==
    UsageReturned =>
        /\ (call.ret.total = 0)
              => /\ call.ret.percentage.class = "finite"
                 /\ call.ret.percentage.num = 0
        /\ (call.ret.total > 0 /\ call.ret.used = call.ret.total)
              => /\ call.ret.percentage.class = "finite"
                 /\ call.ret.percentage.num = 100 * call.ret.percentage.den

\* ======================================== update_top_processes on its own
\* refresh_processes has run; processes().values() has yielded nothing yet
InitRank ==
    /\ InitApp
    /\ call = [fn |-> "update_top_processes", arg |-> <<>>, done |-> FALSE, ret |-> <<>>]

\* lines 111-119: the iterator over the HashMap of processes yields one more
\* process.  The order of a HashMap's values is unspecified (it depends on
\* the hasher's random keys and on the insertions so far), so any process
\* not yet yielded can come next; call.arg is the pids in yield order.
TableYields ==
    /\ call.fn = "update_top_processes"
    /\ ~call.done
    /\ \E pid \in 1..MaxTable :
          /\ \A n \in 1..Len(call.arg) : call.arg[n] # pid
          /\ call' = [call EXCEPT !.arg = Append(@, pid)]
    /\ UNCHANGED <<issues, lock, mainVars, scanVars>>

\* the iteration is over; lines 121-128: what will be stored as top_processes
CallRank ==
    /\ call.fn = "update_top_processes"
    /\ ~call.done
    /\ call' = [call EXCEPT !.done = TRUE, !.ret = RankProcesses(call.arg)]
    /\ UNCHANGED <<issues, lock, mainVars, scanVars>>

SpecRank == InitRank /\ [][TableYields \/ CallRank]_vars

\* ------------------------------------------------------------------- C19
RankReturned == call.fn = "update_top_processes" /\ call.done

\* the pids of a set in ascending order
RECURSIVE Ascending(_)
Ascending(S) ==
    IF S = {} THEN <<>>
    ELSE LET least == CHOOSE x \in S : \A y \in S : x <= y
         IN  <<least>> \o Ascending(S \ {least})

\* at most five entries, each a sampled process, none twice, none left out
\* that scores higher than a kept one, in descending score order
TopFiveByScore ==
    LET t == call.arg
        r == call.ret
    IN  /\ Len(r) <= TopN
        /\ \A n \in 1..Len(r) : \E m \in 1..Len(t) : r[n] = TopProcess(t[m])
        /\ \A a, b \in 1..Len(r) : r[a] = r[b] => a = b
        /\ \A m \in 1..Len(t) :
              (TopProcess(t[m]) \notin Range(r))
                 => /\ Len(r) = TopN
                    /\ \A n \in 1..Len(r) : Score(r[n]) >= Score(TopProcess(t[m]))
        /\ \A n \in 1..(Len(r) - 1) : Score(r[n]) >= Score(r[n + 1])

\* C19: after a refresh tick top_processes holds at most 5 entries, the
\* highest-scoring of the sampled processes, in descending score order, and
\* the sequence depends on the set of sampled processes only: it is the
\* one obtained from any other arrangement of the same set.
C19_TopFiveDeterministic ==
    RankReturned =>
        /\ TopFiveByScore
        /\ call.ret = RankProcesses(Ascending(Range(call.arg)))

\* ------------------------------------------------------------------- C20
\* the pids of the rows of the frame drawn in this iteration
FramePids == [n \in 1..Len(frame.rows) |-> frame.rows[n].pid]

\* the pids of the current top_processes
ListPids == [n \in 1..Len(issues.top_processes) |-> issues.top_processes[n].pid]

\* C20: the kill target is the entry highlighted in the most recent frame.
\* In one iteration the refresh comes before the draw and the handling
\* after it, and only the refresh changes top_processes; so while a
\* KillProcessMenu confirm is handled the list it reads is the list of the
\* frame drawn in this iteration, with the same selected, and a pid that
\* is killed is the pid of the one row drawn highlighted, row `selected`.
C20_KillTargetIsHighlighted ==
    /\ []((mainPc \in {"kill_lock", "kill_io", "kill_ret"})
            => /\ frame.kind = "KillProcessMenu"
               /\ frame.selected = mode.selected
               /\ FramePids = ListPids
               /\ (mainPc = "kill_ret" /\ ops # <<>>)
                     => /\ Len(ops) = 1
                        /\ frame.selected < Len(frame.rows)
                        /\ frame.rows[frame.selected + 1].pid = ops[1].target
                        /\ \A n \in 1..Len(frame.rows) :
                              frame.rows[n].highlighted <=> (n = frame.selected + 1))
    /\ [][ (issues'.top_processes # issues.top_processes)
              => (mainPc = "update_top_processes" /\ frame = NoFrame /\ mainPc' = "draw")
         ]_vars

\* a kill was issued for the second row of a list of several, after the scan
\* had published
C20_Witness ==
    /\ mainPc = "kill_ret" /\ ops # <<>>
    /\ mode.selected = 1 /\ Len(frame.rows) > 1
    /\ ~issues.scanning

\* ------------------------------------------------------------------- C21
\* where the loop is about to call lock(): lines 127, 427/489/636, 340/346,
\* 364, 389
MainRequests == {"update_top_processes", "draw", "nav_lock", "exec_lock", "kill_lock"}

\* where the loop has a guard alive
MainHolds == {"render", "nav", "exec_io", "kill_io", "kill_ret"}

\* some thread holds the lock or is at a request for it
LockBusy == lock # "free" \/ mainPc \in MainRequests \/ scanPc = "lock"

\* C21: the locking discipline is deadlock-free.  A thread holds the lock
\* exactly between one acquisition and its release, so it never requests
\* the lock while it holds it; and under fair scheduling, whenever the
\* lock is held or requested there comes a state in which it is free and
\* nobody is at a request: every holder has released it and neither the
\* loop nor the scanner has stayed at its request (a wait also ends when
\* the process exits).
C21_DeadlockFree ==
    /\ [](/\ (lock = "main") <=> (mainPc \in MainHolds)
          /\ (lock = "scanner") <=> (scanPc = "publish")
          /\ (mainPc \in MainRequests) => (lock # "main")
          /\ (scanPc = "lock") => (lock # "scanner"))
    /\ LockBusy ~> (~LockBusy \/ ~Running)

\* the scanner waits for the lock while clean caches holds it
C21_Witness ==
    /\ scanPc = "lock" /\ lock = "main"
    /\ mainPc = "exec_io" /\ ops # <<>>

\* ------------------------------------------------------------------- C22
\* a recursive delete has been attempted by the confirm being executed
SomeDelete == \E n \in 1..Len(ops) : ops[n].kind = "remove_dir_all"

\* C22: a clean-caches confirm issued while scanning is true deletes
\* nothing and returns to Normal; the scanner's publish triggers no delete;
\* so a directory found by the scan is deleted only by a clean-caches
\* confirm issued after the publish.
C22_NoDeleteByEarlyConfirm ==
    /\ []((confirmed = "scanning") => ~SomeDelete)
    /\ []((mainPc = "exec_io" /\ mode.selected = 0 /\ issues.scanning)
             => (ops = <<>> /\ ExecFinished))
    /\ [][ /\ (ScanFields(issues') # ScanFields(issues)) => (ops' = ops)
           /\ (mainPc = "exec_io" /\ mainPc' # "exec_io") => (mode' = Normal)
         ]_vars

\* C22 amended: a clean-caches confirm whose execute_cleanup takes the lock
\* while scanning is still true finds the list empty, deletes nothing and
\* returns to Normal; the publish triggers no delete; every delete is
\* attempted by an execute_cleanup that took the lock after the publish,
\* also when its confirm was read before the publish.
C22_NoDeleteBeforePublish ==
    /\ []((mainPc = "exec_io" /\ mode.selected = 0 /\ issues.scanning)
             => (ops = <<>> /\ ExecFinished))
    /\ [](SomeDelete
             => /\ ~issues.scanning /\ scanPc = "done"
                /\ mainPc = "exec_io" /\ lock = "main"
                /\ Targets(ops) = SubSeq(CachePaths, 1, i))
    /\ [][ /\ (ScanFields(issues') # ScanFields(issues)) => (ops' = ops)
           /\ (mainPc = "exec_io" /\ mainPc' # "exec_io") => (mode' = Normal)
         ]_vars

\* clean caches runs while the scanner, its walk done and a directory found,
\* waits for the lock: nothing is deleted
C22_Witness ==
    /\ mainPc = "exec_io" /\ mode.selected = 0 /\ issues.scanning
    /\ scanPc = "lock" /\ node_modules # <<>>

\* ------------------------------------------------------------------- C23
\* C23: destructive actions leave IssuesData unchanged.  No step of
\* execute_cleanup or kill_process changes it and nothing else changes it
\* while they hold the lock; the lists change only in the scanner's publish
\* and top_processes only in a refresh tick.  So what the scanner
\* published stays listed after any number of cleanups, and every
\* clean-caches confirm after the publish, a repeated one included,
\* attempts the published paths again.
C23_DestructiveLeavesIssues ==
    /\ [][ /\ DestructiveStep => (issues' = issues)
           /\ (mainPc \in {"exec_io", "kill_io", "kill_ret"}) => (issues' = issues)
           /\ (ScanFields(issues') # ScanFields(issues)) => (scanPc = "publish")
           /\ (issues'.top_processes # issues.top_processes)
                 => (mainPc = "update_top_processes")
         ]_vars
    /\ []((scanPc = "done")
             => /\ issues.node_modules = node_modules
                /\ issues.docker_images = docker_images
                /\ ~issues.scanning)
    /\ []((scanPc = "done" /\ mainPc = "exec_io" /\ mode.selected = 0 /\ ExecFinished)
             => Targets(ops) = [n \in 1..Len(node_modules) |-> node_modules[n].path])

\* clean caches has deleted both published directories with success and
\* both are still listed
C23_Witness ==
    /\ mainPc = "exec_io" /\ mode.selected = 0 /\ ExecFinished
    /\ Len(ops) = 2 /\ ops[1].ok /\ ops[2].ok
    /\ Len(issues.node_modules) = 2

====
